---- MODULE Spec2Model ----
(***************************************************************************)
(* State-machine model of run_jobs.py: the per-company reconciliation loop *)
(* of main(), the Supabase helpers it calls, and the self-healing signal   *)
(* writer supabase_insert_signals().                                       *)
(*                                                                         *)
(* Python values are encoded as strings: None is NoneV, the integer 0 is   *)
(* Int0, every other string is itself.  A job id (a uuid5 string in the    *)
(* code) is a natural number; the order of the numbers stands for the      *)
(* lexicographic order of the uuid strings.                                *)
(***************************************************************************)
EXTENDS Integers, Sequences, FiniteSets, TLC

VARIABLES
    companies,            \* load_companies(): the ordered entity list
    use_expired,          \* USE_EXPIRED_ACTOR
    ci,                   \* position of main's for-loop in companies
    pc,                   \* position of main inside the pass
    clock,                \* datetime.now(timezone.utc)
    job_posts,            \* the job_posts table: id -> stored row
    existing_active,      \* main: existing_active
    items,                \* main: items
    prev_items,           \* items of the pass before, when it was for the same company
    mapped_rows,          \* main: mapped_rows
    new_rows,             \* main: new_rows
    removed_ids,          \* main: removed_ids (sorted list)
    expired_ids,          \* main: expired_ids (sorted list)
    chunk_i,              \* main: i, the offset of the current chunk
    chunk,                \* main: chunk
    total_new_signals,
    total_removed_signals,
    total_jobs_upserted,
    reported,             \* the "=== DONE ===" summary has been printed
    failed_in,            \* the call whose exception left main, or "none"
    ops,                  \* external operations of the current pass, in order
    pre_posts,            \* job_posts as it was when the current pass began
    rows_arg,             \* supabase_insert_signals: rows (the caller's list)
    working,              \* supabase_insert_signals: working
    attempt,              \* supabase_insert_signals: requests issued so far
    ret,                  \* where supabase_insert_signals returns to
    sig_result,           \* how the last supabase_insert_signals call ended
    sig_warned,           \* that call printed a "Signal insert warning"
    written,              \* the rows of the request the signals table accepted
    unknown_cols,         \* columns the signals table does not have
    conforming            \* every response of the call so far followed unknown_cols

vars == <<companies, use_expired, ci, pc, clock, job_posts, existing_active,
          items, prev_items, mapped_rows, new_rows, removed_ids, expired_ids,
          chunk_i, chunk,
          total_new_signals, total_removed_signals, total_jobs_upserted,
          reported, failed_in, ops, pre_posts, rows_arg, working, attempt, ret,
          sig_result, sig_warned, written, unknown_cols, conforming>>

----------------------------------------------------------------------------
(* Bounds of the model *)

MaxItems == 2          \* longest list the career-site fetch returns
MaxExpired == 1        \* longest list the expired-jobs fetch returns
MaxUnknown == 8        \* most columns the signals table may lack
BulkN == 450           \* size of the large previously-active set

(* Program constants *)

BATCH == 200           \* main: BATCH
MaxAttemptsPlusOne == 8 + 1   \* range(0, 9)
MaxAttempts == 8       \* supabase_insert_signals: range(0, 8)
NewJobStrength == 40
RemovedStrength == 25

----------------------------------------------------------------------------
(* Python values *)

NoneV == "<None>"
Int0 == "<int 0>"

\* bool(v) for the values of the model
Truthy(v) == v \notin {NoneV, "", Int0}

\* a or b
PyOr(a, b) == IF Truthy(a) THEN a ELSE b

\* str(v), as an f-string formats it
PyStr(v) == CASE v = NoneV -> "None"
              [] v = Int0 -> "0"
              [] OTHER -> v

\* s.strip()
Strip(s) == CASE s = " " -> ""
              [] s = " signal_type " -> "signal_type"
              [] OTHER -> s

\* dict.get(key) on a record that may lack the key
Get(d, key) == IF key \in DOMAIN d THEN d[key] ELSE NoneV

SeqToSet(s) == {s[n] : n \in 1..Len(s)}

\* sorted(S) for a set S of job ids, all in lo..hi
RECURSIVE SortedIn(_, _, _)
SortedIn(S, lo, hi) ==
    IF S = {} THEN <<>>
    ELSE IF lo = hi THEN <<lo>>
    ELSE LET mid == (lo + hi) \div 2
         IN SortedIn({x \in S : x <= mid}, lo, mid)
              \o SortedIn({x \in S : x > mid}, mid + 1, hi)

Sorted(S) ==
    IF S = {} THEN <<>>
    ELSE SortedIn(S, CHOOSE x \in S : \A y \in S : x <= y,
                     CHOOSE x \in S : \A y \in S : x >= y)

----------------------------------------------------------------------------
(* Identity: uuid.uuid5(uuid.NAMESPACE_URL, seed) *)

Companies == {"A", "B"}

\* the seeds the model can form, in the order of their uuid5 strings
UuidOrder == << <<"B", "x">>, <<"A", "42">>, <<"B", "">>, <<"A", "x">>,
                <<"A", "">>, <<"B", "42">>, <<"A", "0">>, <<"B", "0">>,
                <<"A", "None">>, <<"B", "None">> >>

UUID5(seed) == CHOOSE n \in 1..Len(UuidOrder) : UuidOrder[n] = seed

\* ids of rows stored by earlier runs whose postings are no longer offered
LegacyBase == 100
LegacyIds == (LegacyBase + 1)..(LegacyBase + 2)
BulkIds == (LegacyBase + 1)..(LegacyBase + BulkN)

----------------------------------------------------------------------------
(* map_job_item_to_row *)

\* f"{company}::{job_id or job_url}"
Seed(company, job_id, job_url) == <<company, PyStr(PyOr(job_id, job_url))>>

\* [p for p in [city, admin, country] if p]; ", ".join(parts) is the list of
\* its parts, and the empty list stands for None
LocationOf(locations) ==
    IF locations # <<>>
    THEN SelectSeq(<<Get(locations[1], "city"), Get(locations[1], "admin"),
                     Get(locations[1], "country")>>, Truthy)
    ELSE <<>>

MapJobItemToRow(company, item, now) ==
    LET job_id == Get(item, "id")
        job_url == PyOr(Get(item, "url"), "")
        uid == UUID5(Seed(company, job_id, job_url))
        countries == IF "countries_derived" \in DOMAIN item
                     THEN item.countries_derived ELSE <<>>
        locations == IF "locations_derived" \in DOMAIN item
                     THEN item.locations_derived ELSE <<>>
    IN [id |-> uid,
        job_uid |-> uid,
        company |-> company,
        title |-> PyOr(Get(item, "title"), "(no title)"),
        location |-> LocationOf(locations),
        country |-> IF countries # <<>> THEN countries[1] ELSE NoneV,
        first_seen_at |-> now,
        last_seen_at |-> now,
        is_active |-> TRUE]

----------------------------------------------------------------------------
(* Signal builders.  A formatted title is the record of its parts: the     *)
(* fixed text, the company and what follows it; paren is the location put  *)
(* in parentheses, empty when the f-string adds none.                      *)

BuildNewJobSignal(company, job_row, now) ==
    LET title == job_row.title
        loc == job_row.location
        job_id == job_row.job_uid
    IN [account_name |-> company,
        company |-> company,
        signal_type |-> "NEW_JOB",
        type |-> "NEW_JOB",
        title |-> [text |-> "posted", company |-> company, title |-> title,
                   paren |-> loc],
        occurred_at |-> now,
        strength_score |-> NewJobStrength,
        source_url |-> NoneV,
        metadata |-> [job_id |-> job_id, title |-> title, location |-> loc],
        job_uid |-> job_id]

BuildRemovedJobSignal(company, job_id, now) ==
    [account_name |-> company,
     company |-> company,
     signal_type |-> "JOB_REMOVED",
     type |-> "JOB_REMOVED",
     title |-> [text |-> "job removed/expired", company |-> company,
                job_id |-> job_id],
     occurred_at |-> now,
     strength_score |-> RemovedStrength,
     source_url |-> NoneV,
     metadata |-> [job_id |-> job_id],
     job_uid |-> job_id]

----------------------------------------------------------------------------
(* The storage backend (PostgREST over the job_posts table) *)

\* resolution=merge-duplicates on the key column: every column the request
\* supplies replaces the stored one, every other stored column is kept
MergeRow(old, new) ==
    [k \in (DOMAIN old) \cup (DOMAIN new) |->
        IF k \in DOMAIN new THEN new[k] ELSE old[k]]

UpsertOne(posts, row) ==
    [id \in (DOMAIN posts) \cup {row.id} |->
        IF id = row.id
        THEN (IF id \in DOMAIN posts THEN MergeRow(posts[id], row) ELSE row)
        ELSE posts[id]]

\* POST /job_posts?on_conflict=id with the rows of the list, accepted
RECURSIVE UpsertRows(_, _)
UpsertRows(posts, rows) ==
    IF rows = <<>> THEN posts
    ELSE UpsertRows(UpsertOne(posts, Head(rows)), Tail(rows))

\* GET /job_posts?company=eq.<company>&is_active=eq.true, as a set of ids
ActiveJobUids(posts, company) ==
    {id \in DOMAIN posts : posts[id].company = company /\ posts[id].is_active}

\* PATCH /job_posts?company=eq.<company>&id=in.(<job_ids>), accepted
MarkInactive(posts, company, job_ids, now) ==
    [id \in DOMAIN posts |->
        IF posts[id].company = company /\ id \in SeqToSet(job_ids)
        THEN [posts[id] EXCEPT !.is_active = FALSE, !.last_seen_at = now]
        ELSE posts[id]]

----------------------------------------------------------------------------
(* supabase_insert_signals and its helpers *)

\* a response of the signals endpoint: r.ok, and of r.text whether it holds
\* the marker "Could not find the '" (with the text up to the next quote in
\* col) and whether it holds "invalid input syntax for type uuid"
OkResponse == [ok |-> TRUE, marker |-> FALSE, col |-> "", uuid |-> FALSE]

ExtractMissingColumnName(resp) ==
    IF resp.marker
    THEN (IF Strip(resp.col) # "" THEN Strip(resp.col) ELSE NoneV)
    ELSE NoneV

\* PruneRow with "k not in drop_key" for "k != drop_key": a key that is a
\* substring of drop_key goes too ("type" is one of "signal_type")
PruneRowSubstring(r, drop_key) ==
    [k \in (DOMAIN r) \ ({drop_key} \cup (IF drop_key = "signal_type"
                                           THEN {"type"} ELSE {})) |-> r[k]]

PruneRow(r, drop_key) == [k \in (DOMAIN r) \ {drop_key} |-> r[k]]

\* PruneRows that prunes the first row only
PruneRowsFirstOnly(rows, drop_key) ==
    IF rows = <<>> THEN rows
    ELSE [n \in 1..Len(rows) |-> IF n = 1 THEN PruneRow(rows[n], drop_key) ELSE rows[n]]

PruneRows(rows, drop_key) ==
    IF rows = <<>> THEN rows
    ELSE [n \in 1..Len(rows) |-> PruneRow(rows[n], drop_key)]

UuidCandidates == <<"id", "account_id", "signal_id">>

AnyRowHas(rows, key) == \E n \in 1..Len(rows) : key \in DOMAIN rows[n]

\* the first candidate some row carries, or NoneV (the for-else)
UuidCandidate(rows) ==
    IF \E n \in 1..Len(UuidCandidates) : AnyRowHas(rows, UuidCandidates[n])
    THEN UuidCandidates[CHOOSE n \in 1..Len(UuidCandidates) :
            /\ AnyRowHas(rows, UuidCandidates[n])
            /\ \A m \in 1..(n - 1) : ~AnyRowHas(rows, UuidCandidates[m])]
    ELSE NoneV

\* HandleResponse with r.raise_for_status() in place of the final warning
HandleResponseRaising(w, resp) ==
    IF resp.ok
    THEN [next |-> "return", working |-> w, warned |-> FALSE, result |-> "accepted"]
    ELSE IF Truthy(ExtractMissingColumnName(resp))
    THEN [next |-> "continue",
          working |-> PruneRows(w, ExtractMissingColumnName(resp)),
          warned |-> FALSE, result |-> "none"]
    ELSE [next |-> "raise", working |-> w, warned |-> FALSE, result |-> "raised"]

\* HandleResponse with the final warning and return replaced by a retry
HandleResponseRetrying(w, resp) ==
    IF resp.ok
    THEN [next |-> "return", working |-> w, warned |-> FALSE, result |-> "accepted"]
    ELSE IF Truthy(ExtractMissingColumnName(resp))
    THEN [next |-> "continue",
          working |-> PruneRows(w, ExtractMissingColumnName(resp)),
          warned |-> FALSE, result |-> "none"]
    ELSE IF resp.uuid /\ UuidCandidate(w) # NoneV
    THEN [next |-> "continue", working |-> PruneRows(w, UuidCandidate(w)),
          warned |-> FALSE, result |-> "none"]
    ELSE [next |-> "continue", working |-> w, warned |-> FALSE, result |-> "none"]

\* one iteration of the retry loop after the response has arrived:
\* what the loop does next, the new working list, whether a warning is printed
HandleResponse(w, resp) ==
    IF resp.ok
    THEN [next |-> "return", working |-> w, warned |-> FALSE, result |-> "accepted"]
    ELSE IF Truthy(ExtractMissingColumnName(resp))
    THEN [next |-> "continue",
          working |-> PruneRows(w, ExtractMissingColumnName(resp)),
          warned |-> FALSE, result |-> "none"]
    ELSE IF resp.uuid
    THEN (IF UuidCandidate(w) # NoneV
          THEN [next |-> "continue", working |-> PruneRows(w, UuidCandidate(w)),
                warned |-> FALSE, result |-> "none"]
          ELSE [next |-> "return", working |-> w, warned |-> TRUE,
                result |-> "abandoned"])
    ELSE [next |-> "return", working |-> w, warned |-> TRUE, result |-> "abandoned"]

\* the response the signals table gives when it lacks exactly the columns U
\* and names one still-present column of U per rejection
FollowsSchema(w, resp, U) ==
    LET present == {c \in U : AnyRowHas(w, c)}
    IN IF present = {} THEN resp.ok
       ELSE ~resp.ok /\ resp.marker /\ resp.col \in present

\* the job ids of a list of rows, in order
RowIds(rows) == [n \in 1..Len(rows) |-> rows[n].id]
SignalUids(rows) == [n \in 1..Len(rows) |-> Get(rows[n], "job_uid")]
SignalKind(rows) == IF rows = <<>> THEN "" ELSE Get(rows[1], "type")

Op(name, kind, ids, ok) == [op |-> name, kind |-> kind, ids |-> ids, ok |-> ok]

SigIdle ==
    /\ rows_arg' = <<>>
    /\ working' = <<>>
    /\ attempt' = 0
    /\ ret' = ""
    /\ sig_result' = "none"
    /\ sig_warned' = FALSE
    /\ written' = <<>>
    /\ conforming' = TRUE
    /\ UNCHANGED unknown_cols

\* supabase_insert_signals(rows), up to its first request; log is the pass's
\* operations before the call
CallInsertSignals(rows, retpc, log) ==
    /\ rows_arg' = rows
    /\ working' = rows
    /\ attempt' = 0
    /\ sig_warned' = FALSE
    /\ written' = <<>>
    /\ conforming' = TRUE
    /\ UNCHANGED unknown_cols
    /\ ops' = Append(log, Op("insert_signals", SignalKind(rows), SignalUids(rows), TRUE))
    /\ ret' = retpc
    /\ IF rows = <<>>
       THEN pc' = retpc /\ sig_result' = "empty"
       ELSE pc' = "ins" /\ sig_result' = "none"

\* one pass of the retry loop: the request, its response, the reaction.
\* working and attempt are locals of the call: they are gone when it ends.
SigAttempt(resp) ==
    /\ pc = "ins"
    /\ attempt < MaxAttempts
    /\ LET h == HandleResponse(working, resp)
           exhausted == h.next = "continue" /\ attempt + 1 = MaxAttempts
           goes_on == h.next = "continue" /\ ~exhausted
       IN /\ attempt' = IF goes_on THEN attempt + 1 ELSE 0
          /\ working' = IF goes_on THEN h.working ELSE <<>>
          /\ written' = IF resp.ok THEN working ELSE <<>>
          /\ sig_warned' = h.warned
          /\ conforming' = (conforming /\ FollowsSchema(working, resp, unknown_cols))
          /\ ops' = IF attempt = 0
                    THEN Append(ops, Op("signals_post", SignalKind(rows_arg),
                                        SignalUids(rows_arg), TRUE))
                    ELSE ops
          /\ CASE h.next = "raise" ->
                    pc' = "failed" /\ failed_in' = "supabase_insert_signals"
                    /\ sig_result' = "raised" /\ UNCHANGED ret
               [] h.next = "return" ->
                    pc' = ret /\ sig_result' = h.result /\ UNCHANGED <<ret, failed_in>>
               [] exhausted ->
                    pc' = ret /\ sig_result' = "exhausted" /\ UNCHANGED <<ret, failed_in>>
               [] OTHER ->
                    pc' = "ins" /\ sig_result' = "none" /\ UNCHANGED <<ret, failed_in>>
    /\ UNCHANGED <<rows_arg, unknown_cols>>
    /\ UNCHANGED <<companies, use_expired, items, prev_items,
                   ci, clock, job_posts, existing_active,
                   mapped_rows, new_rows, removed_ids, expired_ids, chunk_i, chunk,
                   total_new_signals, total_removed_signals, total_jobs_upserted,
                   reported, pre_posts>>

----------------------------------------------------------------------------
(* What the collaborators can answer *)

\* records the career-site actor can return
ItemPool ==
    { [id |-> "42", url |-> "x", title |-> "Dev",
       countries_derived |-> <<"NO">>,
       locations_derived |-> <<[city |-> "Oslo", admin |-> NoneV, country |-> "NO"]>>],
      [url |-> "x"] }

\* records the expired-jobs actor can return
ExpiredPool ==
    { [id |-> "42", url |-> "x"],
      [id |-> Int0, url |-> "x"],
      [url |-> "x"] }

SeqsUpTo(S, n) == UNION {[1..k -> S] : k \in 0..n}

FetchResults == SeqsUpTo(ItemPool, MaxItems)
ExpiredResults == SeqsUpTo(ExpiredPool, MaxExpired)

\* the columns build_new_job_signal and build_removed_job_signal emit
SignalCols == <<"account_name", "signal_type", "source_url", "strength_score",
                "occurred_at", "metadata", "title", "company", "type", "job_uid">>

Rejection(col, marker, uuid) ==
    [ok |-> FALSE, marker |-> marker, col |-> col, uuid |-> uuid]

\* acceptance, a rejection naming a column of cols, a uuid rejection, any
\* other rejection
SigResponsesNaming(cols) ==
    {OkResponse}
    \cup {Rejection(c, TRUE, FALSE) : c \in cols}
    \cup {Rejection("", FALSE, u) : u \in BOOLEAN}

\* the same, and rejections whose text holds the marker but no column name
SigResponsesAny(cols) ==
    SigResponsesNaming(cols) \cup {Rejection(c, TRUE, u) : c \in {"", " "}, u \in BOOLEAN}

MainSigResponses == SigResponsesNaming({" signal_type "})

\* every response the model lets the signals endpoint give
SigResponseUniverse ==
    SigResponsesAny(SeqToSet(SignalCols) \cup {"nope", " signal_type "})

----------------------------------------------------------------------------
(* main: the pure steps of one pass *)

Company == companies[ci]

\* lines 327-329: the job_uid safety net
EnsureJobUid(r) ==
    IF "job_uid" \in DOMAIN r THEN r
    ELSE [k \in (DOMAIN r) \cup {"job_uid"} |-> IF k = "job_uid" THEN r.id ELSE r[k]]

MappedRows(company, its, now) ==
    [n \in 1..Len(its) |-> EnsureJobUid(MapJobItemToRow(company, its[n], now))]

CurrentIds(mapped) == {mapped[n].id : n \in 1..Len(mapped)}

\* NewRows that classifies against the table as it is after the upsert
NewRowsAgainstStored(mapped, existing) ==
    LET NotStoredActive(r) == r.id \notin ActiveJobUids(job_posts, Company)
    IN SelectSeq(mapped, NotStoredActive)

NewRows(mapped, existing) ==
    LET NotActive(r) == r.id \notin existing
    IN SelectSeq(mapped, NotActive)

NewSignalsOf(company, rows, now) ==
    [n \in 1..Len(rows) |-> BuildNewJobSignal(company, rows[n], now)]

\* RemovedIds without the subtraction, and with its operands swapped
RemovedIdsAll(existing, current) == Sorted(existing)
RemovedIdsSwapped(existing, current) == Sorted(current \ existing)

RemovedIds(existing, current) == Sorted(existing \ current)

\* ids[i : i + BATCH + 1]
SliceOverlapping(ids, i) ==
    SubSeq(ids, i + 1, IF i + BATCH + 1 < Len(ids) THEN i + BATCH + 1 ELSE Len(ids))

\* ids[i : i + BATCH]
Slice(ids, i) ==
    SubSeq(ids, i + 1, IF i + BATCH < Len(ids) THEN i + BATCH ELSE Len(ids))

RemovedSignalsOf(company, ids, now) ==
    [n \in 1..Len(ids) |-> BuildRemovedJobSignal(company, ids[n], now)]

\* lines 365-372: the ids of the records the expired-jobs actor returned
ExpiredIds(company, its) ==
    Sorted({UUID5(Seed(company, Get(its[n], "id"), PyOr(Get(its[n], "url"), ""))) :
              n \in {m \in 1..Len(its) : Get(its[m], "id") # NoneV}})

\* r.raise_for_status() after a response that is not r.ok
GetActiveRaises(ok) == ~ok
FetchRaises(ok) == ~ok
UpsertNeverRaises(ok) == FALSE
UpsertRaises(ok) == ~ok
MarkInactiveNeverRaises(ok) == FALSE
MarkInactiveRaises(ok) == ~ok

Fail(where) == pc' = "failed" /\ failed_in' = where

----------------------------------------------------------------------------
(* main: the steps of one pass, one action per external call *)

\* line 318: existing_active = supabase_get_active_job_uids(company)
GetActive ==
    /\ pc = "get_active"
    /\ \E ok \in BOOLEAN :
         /\ ops' = Append(ops, Op("get_active", "", <<>>, ok))
         /\ IF GetActiveRaises(ok)
            THEN Fail("supabase_get_active_job_uids") /\ UNCHANGED existing_active
            ELSE /\ existing_active' = ActiveJobUids(job_posts, Company)
                 /\ pc' = "fetch"
                 /\ UNCHANGED failed_in
    /\ SigIdle
    /\ UNCHANGED <<companies, use_expired, items, prev_items,
                   ci, clock, job_posts, mapped_rows,
                   new_rows, removed_ids, expired_ids, chunk_i, chunk,
                   total_new_signals, total_removed_signals, total_jobs_upserted,
                   reported, pre_posts>>

\* lines 321-329: items = fetch_new_jobs_for_company(company); mapped_rows
Fetch ==
    /\ pc = "fetch"
    /\ \E ok \in BOOLEAN, fetched \in FetchResults :
         /\ ops' = Append(ops, Op("fetch", "", <<>>, ok))
         /\ IF FetchRaises(ok)
            THEN Fail("fetch_new_jobs_for_company") /\ UNCHANGED <<items, mapped_rows>>
            ELSE /\ items' = fetched
                 /\ mapped_rows' = MappedRows(Company, fetched, clock)
                 /\ pc' = "upsert"
                 /\ UNCHANGED failed_in
    /\ SigIdle
    /\ UNCHANGED <<companies, use_expired, prev_items,
                   ci, clock, job_posts, existing_active,
                   new_rows, removed_ids, expired_ids, chunk_i, chunk,
                   total_new_signals, total_removed_signals, total_jobs_upserted,
                   reported, pre_posts>>

\* lines 334-335: upserted = supabase_upsert_job_posts(mapped_rows)
Upsert ==
    /\ pc = "upsert"
    /\ IF mapped_rows = <<>>
       THEN /\ pc' = "new_signals"
            /\ UNCHANGED <<job_posts, total_jobs_upserted, failed_in, ops>>
       ELSE \E ok \in BOOLEAN :
              /\ ops' = Append(ops, Op("upsert", "", RowIds(mapped_rows), ok))
              /\ IF UpsertRaises(ok)
                 THEN /\ Fail("supabase_upsert_job_posts")
                      /\ UNCHANGED <<job_posts, total_jobs_upserted>>
                 ELSE /\ job_posts' = (IF ok THEN UpsertRows(job_posts, mapped_rows)
                                             ELSE job_posts)
                      /\ total_jobs_upserted' = total_jobs_upserted + Len(mapped_rows)
                      /\ pc' = "new_signals"
                      /\ UNCHANGED failed_in
    /\ SigIdle
    /\ UNCHANGED <<companies, use_expired, items, prev_items,
                   ci, clock, existing_active, mapped_rows,
                   new_rows, removed_ids, expired_ids, chunk_i, chunk,
                   total_new_signals, total_removed_signals, reported, pre_posts>>

\* lines 339-343: new_rows, new_signals, supabase_insert_signals(new_signals)
NewSignals ==
    /\ pc = "new_signals"
    /\ new_rows' = NewRows(mapped_rows, existing_active)
    /\ CallInsertSignals(NewSignalsOf(Company, new_rows', clock), "removed", ops)
    /\ total_new_signals' = total_new_signals + Len(new_rows')
    /\ UNCHANGED <<companies, use_expired, items, prev_items,
                   ci, clock, job_posts, existing_active,
                   mapped_rows, removed_ids, expired_ids, chunk_i, chunk,
                   total_removed_signals, total_jobs_upserted, reported,
                   failed_in, pre_posts>>

\* lines 348-352: removed_ids and the first chunk
ComputeRemoved ==
    /\ pc = "removed"
    /\ removed_ids' = RemovedIds(existing_active, CurrentIds(mapped_rows))
    /\ chunk_i' = 0
    /\ IF removed_ids' # <<>>
       THEN chunk' = Slice(removed_ids', 0) /\ pc' = "mark"
       ELSE chunk' = <<>> /\ pc' = "expired"
    /\ SigIdle
    /\ UNCHANGED <<companies, use_expired, items, prev_items,
                   ci, clock, job_posts, existing_active,
                   mapped_rows, new_rows, expired_ids, total_new_signals,
                   total_removed_signals, total_jobs_upserted, reported,
                   failed_in, ops, pre_posts>>

\* line 353: supabase_mark_inactive(company, chunk)
MarkChunk ==
    /\ pc = "mark"
    /\ \E ok \in BOOLEAN :
         /\ ops' = Append(ops, Op("mark_inactive", "diff", chunk, ok))
         /\ IF MarkInactiveRaises(ok)
            THEN Fail("supabase_mark_inactive") /\ UNCHANGED job_posts
            ELSE /\ job_posts' = (IF ok THEN MarkInactive(job_posts, Company, chunk, clock)
                                        ELSE job_posts)
                 /\ pc' = "rm_signals"
                 /\ UNCHANGED failed_in
    /\ SigIdle
    /\ UNCHANGED <<companies, use_expired, items, prev_items,
                   ci, clock, existing_active, mapped_rows,
                   new_rows, removed_ids, expired_ids, chunk_i, chunk,
                   total_new_signals, total_removed_signals, total_jobs_upserted,
                   reported, pre_posts>>

\* lines 354-356: removed_signals, supabase_insert_signals(removed_signals)
RemovedSignals ==
    /\ pc = "rm_signals"
    /\ CallInsertSignals(RemovedSignalsOf(Company, chunk, clock), "next_chunk", ops)
    /\ total_removed_signals' = total_removed_signals + Len(chunk)
    /\ UNCHANGED <<companies, use_expired, items, prev_items,
                   ci, clock, job_posts, existing_active,
                   mapped_rows, new_rows, removed_ids, expired_ids, chunk_i, chunk,
                   total_new_signals, total_jobs_upserted, reported, failed_in,
                   pre_posts>>

\* line 351: the next i of range(0, len(removed_ids), BATCH)
NextChunk ==
    /\ pc = "next_chunk"
    /\ chunk_i' = chunk_i + BATCH
    /\ IF chunk_i' < Len(removed_ids)
       THEN chunk' = Slice(removed_ids, chunk_i') /\ pc' = "mark"
       ELSE chunk' = <<>> /\ pc' = "expired"
    /\ SigIdle
    /\ UNCHANGED <<companies, use_expired, items, prev_items,
                   ci, clock, job_posts, existing_active,
                   mapped_rows, new_rows, removed_ids, expired_ids,
                   total_new_signals, total_removed_signals, total_jobs_upserted,
                   reported, failed_in, ops, pre_posts>>

\* lines 362-376 and 385-387: the optional expired-jobs actor
ExpiredActor ==
    /\ pc = "expired"
    /\ chunk_i' = 0
    /\ IF ~use_expired
       THEN pc' = "sleep" /\ UNCHANGED <<expired_ids, chunk, ops>>
       ELSE \E ok \in BOOLEAN, expired_items \in ExpiredResults :
              /\ ops' = Append(ops, Op("fetch_expired", "", <<>>, ok))
              /\ IF FetchRaises(ok)
                 THEN pc' = "sleep" /\ UNCHANGED <<expired_ids, chunk>>
                 ELSE /\ expired_ids' = ExpiredIds(Company, expired_items)
                      /\ IF expired_ids' # <<>>
                         THEN chunk' = Slice(expired_ids', 0) /\ pc' = "exp_mark"
                         ELSE chunk' = <<>> /\ pc' = "sleep"
    /\ SigIdle
    /\ UNCHANGED <<companies, use_expired, items, prev_items,
                   ci, clock, job_posts, existing_active,
                   mapped_rows, new_rows, removed_ids, total_new_signals,
                   total_removed_signals, total_jobs_upserted, reported,
                   failed_in, pre_posts>>

\* line 378, and its HTTPError caught at line 385
ExpiredMark ==
    /\ pc = "exp_mark"
    /\ \E ok \in BOOLEAN :
         /\ ops' = Append(ops, Op("mark_inactive", "actor", chunk, ok))
         /\ IF MarkInactiveRaises(ok)
            THEN pc' = "sleep" /\ UNCHANGED job_posts
            ELSE /\ job_posts' = (IF ok THEN MarkInactive(job_posts, Company, chunk, clock)
                                        ELSE job_posts)
                 /\ pc' = "exp_signals"
    /\ SigIdle
    /\ UNCHANGED <<companies, use_expired, items, prev_items,
                   ci, clock, existing_active, mapped_rows,
                   new_rows, removed_ids, expired_ids, chunk_i, chunk,
                   total_new_signals, total_removed_signals, total_jobs_upserted,
                   reported, failed_in, pre_posts>>

\* lines 379-381
ExpiredSignals ==
    /\ pc = "exp_signals"
    /\ CallInsertSignals(RemovedSignalsOf(Company, chunk, clock), "exp_next", ops)
    /\ total_removed_signals' = total_removed_signals + Len(chunk)
    /\ UNCHANGED <<companies, use_expired, items, prev_items,
                   ci, clock, job_posts, existing_active,
                   mapped_rows, new_rows, removed_ids, expired_ids, chunk_i, chunk,
                   total_new_signals, total_jobs_upserted, reported, failed_in,
                   pre_posts>>

\* line 376: the next i of range(0, len(expired_ids), BATCH)
ExpiredNext ==
    /\ pc = "exp_next"
    /\ chunk_i' = chunk_i + BATCH
    /\ IF chunk_i' < Len(expired_ids)
       THEN chunk' = Slice(expired_ids, chunk_i') /\ pc' = "exp_mark"
       ELSE chunk' = <<>> /\ pc' = "sleep"
    /\ SigIdle
    /\ UNCHANGED <<companies, use_expired, items, prev_items,
                   ci, clock, job_posts, existing_active,
                   mapped_rows, new_rows, removed_ids, expired_ids,
                   total_new_signals, total_removed_signals, total_jobs_upserted,
                   reported, failed_in, ops, pre_posts>>

\* line 389 and the loop head at line 315: time.sleep(1.2), the next company
Sleep ==
    /\ pc = "sleep"
    /\ clock' = clock + 1
    /\ ci' = ci + 1
    /\ pc' = IF ci' <= Len(companies) THEN "get_active" ELSE "report"
    /\ ops' = <<>>
    /\ pre_posts' = job_posts
    /\ existing_active' = {}
    /\ prev_items' = IF ci' <= Len(companies) /\ companies[ci'] = companies[ci]
                     THEN items ELSE <<>>
    /\ items' = <<>>
    /\ mapped_rows' = <<>>
    /\ new_rows' = <<>>
    /\ removed_ids' = <<>>
    /\ expired_ids' = <<>>
    /\ chunk_i' = 0
    /\ chunk' = <<>>
    /\ SigIdle
    /\ UNCHANGED <<companies, use_expired, job_posts, total_new_signals,
                   total_removed_signals, total_jobs_upserted, reported, failed_in>>

\* lines 391-394: the final summary
Report ==
    /\ pc = "report"
    /\ reported' = TRUE
    /\ pc' = "done"
    /\ SigIdle
    /\ UNCHANGED <<companies, use_expired, items, prev_items,
                   ci, clock, job_posts, existing_active,
                   mapped_rows, new_rows, removed_ids, expired_ids, chunk_i, chunk,
                   total_new_signals, total_removed_signals, total_jobs_upserted,
                   failed_in, ops, pre_posts>>

----------------------------------------------------------------------------
(* The states a run starts from *)

CompanyLists == {<<>>, <<"A">>, <<"A", "A">>, <<"A", "B">>}

StoredRow(id, company, active) ==
    [id |-> id, job_uid |-> id, company |-> company, title |-> "Old",
     location |-> <<>>, country |-> NoneV,
     first_seen_at |-> 0, last_seen_at |-> 0, is_active |-> active]

\* rows of company A left by earlier runs
InitIds == {UUID5(<<"A", "42">>)} \cup LegacyIds

PostsOf(active, inactive) ==
    [id \in active \cup inactive |-> StoredRow(id, "A", id \in active)]

\* the sets of them that can be active: the legacy ids are alike, so of two
\* sets that differ only in which legacy ids they hold one is kept
ActiveSets ==
    {act \in SUBSET InitIds :
        \A x \in act \cap LegacyIds : \A y \in LegacyIds : y < x => y \in act}

\* any of them active, and the one the fetch can offer again possibly inactive
InitPosts ==
    {PostsOf(act, inact \ act) : act \in ActiveSets,
                                 inact \in SUBSET {UUID5(<<"A", "42">>)}}

BulkPosts == PostsOf(BulkIds, {})

InitLocals ==
    /\ ci = 1
    /\ clock = 1
    /\ existing_active = {}
    /\ prev_items = <<>>
    /\ mapped_rows = <<>>
    /\ new_rows = <<>>
    /\ removed_ids = <<>>
    /\ expired_ids = <<>>
    /\ chunk_i = 0
    /\ chunk = <<>>
    /\ total_new_signals = 0
    /\ total_removed_signals = 0
    /\ total_jobs_upserted = 0
    /\ reported = FALSE
    /\ failed_in = "none"
    /\ ops = <<>>
    /\ rows_arg = <<>>
    /\ working = <<>>
    /\ attempt = 0
    /\ ret = ""
    /\ sig_result = "none"
    /\ sig_warned = FALSE
    /\ written = <<>>
    /\ conforming = TRUE

Init ==
    /\ companies \in CompanyLists
    /\ use_expired \in BOOLEAN
    /\ job_posts \in InitPosts
    /\ pre_posts = job_posts
    /\ pc = IF companies = <<>> THEN "report" ELSE "get_active"
    /\ unknown_cols = {"signal_type"}
    /\ items = <<>>
    /\ InitLocals

Next ==
    \/ GetActive
    \/ Fetch
    \/ Upsert
    \/ NewSignals
    \/ ComputeRemoved
    \/ MarkChunk
    \/ RemovedSignals
    \/ NextChunk
    \/ ExpiredActor
    \/ ExpiredMark
    \/ ExpiredSignals
    \/ ExpiredNext
    \/ Sleep
    \/ Report
    \/ \E resp \in MainSigResponses : SigAttempt(resp)

Spec == Init /\ [][Next]_vars

----------------------------------------------------------------------------
(* A run that starts with BulkN active rows of company A: with BATCH = 200  *)
(* the removed ids need more than one chunk.                                *)

InitBulk ==
    /\ companies = <<"A">>
    /\ use_expired \in BOOLEAN
    /\ job_posts = BulkPosts
    /\ pre_posts = job_posts
    /\ pc = "get_active"
    /\ unknown_cols = {"signal_type"}
    /\ items = <<>>
    /\ InitLocals

SpecBulk == InitBulk /\ [][Next]_vars

----------------------------------------------------------------------------
(* supabase_insert_signals on its own: a caller hands it a list of rows,    *)
(* the signals table lacks the columns unknown_cols, and the endpoint may   *)
(* answer each request in any way.                                          *)

\* a row that carries id-like columns, as another caller could build it
IdRow == [id |-> 7, account_id |-> 3, type |-> "NEW_JOB", job_uid |-> 5]

SampleNew == BuildNewJobSignal("A", StoredRow(2, "A", TRUE), 1)
SampleRemoved == BuildRemovedJobSignal("A", 5, 1)

SigInputs == {<<>>, <<SampleNew>>, <<SampleNew, SampleRemoved>>, <<IdRow>>,
              <<SampleRemoved, IdRow>>}

\* the first k columns of SignalCols
FirstCols(k) == {SignalCols[n] : n \in 1..k}

UnknownSets == {FirstCols(k) : k \in 0..MaxUnknown}

Caller ==
    /\ pc = "caller"
    /\ \E rows \in SigInputs : CallInsertSignals(rows, "returned", ops)
    /\ UNCHANGED <<companies, use_expired, items, prev_items,
                   ci, clock, job_posts, existing_active,
                   mapped_rows, new_rows, removed_ids, expired_ids, chunk_i, chunk,
                   total_new_signals, total_removed_signals, total_jobs_upserted,
                   reported, failed_in, pre_posts>>

InitSig ==
    /\ companies = <<>>
    /\ use_expired = FALSE
    /\ job_posts = PostsOf({}, {})
    /\ pre_posts = job_posts
    /\ pc = "caller"
    /\ unknown_cols \in UnknownSets
    /\ items = <<>>
    /\ InitLocals

\* one request of the call, answered in any way
SigStep ==
    \E resp \in SigResponsesAny(unknown_cols \cup {"nope", " signal_type "}) :
        SigAttempt(resp)

NextSig ==
    \/ Caller
    \/ SigStep

SpecSig == InitSig /\ [][NextSig]_vars

\* the same, with every request answered: requests.post(..., timeout=120)
\* comes back, and the loop then takes its next step
SpecSigLive == SpecSig /\ WF_vars(SigStep)

----------------------------------------------------------------------------
(* The identity derivation on its own: one record of any shape is mapped   *)
(* for one company, by map_job_item_to_row as main calls it and by the     *)
(* expired-jobs block of main.                                             *)

Absent == "<absent>"

\* a record with the given fields; a field that is Absent is not a key of it
MkItem(id, url, title) ==
    LET val == [k \in {"id", "url", "title"} |->
                   CASE k = "id" -> id [] k = "url" -> url [] OTHER -> title]
    IN [k \in {key \in {"id", "url", "title"} : val[key] # Absent} |-> val[k]]

MapIdValues == {Absent, NoneV, "", Int0, "42"}
MapUrlValues == {Absent, NoneV, "", "x"}
MapTitleValues == {Absent, "Dev"}

MapItems ==
    {MkItem(i, u, t) : i \in MapIdValues, u \in MapUrlValues, t \in MapTitleValues}

\* lines 324-329 for the one record
MapStep ==
    /\ pc = "map"
    /\ mapped_rows' = MappedRows(Company, items, clock)
    /\ pc' = "mapped"
    /\ SigIdle
    /\ UNCHANGED <<companies, use_expired, items, prev_items,
                   ci, clock, job_posts, existing_active, new_rows, removed_ids,
                   expired_ids, chunk_i, chunk, total_new_signals,
                   total_removed_signals, total_jobs_upserted, reported,
                   failed_in, ops, pre_posts>>

\* lines 365-372 for the same record
ExpiredIdsStep ==
    /\ pc = "mapped"
    /\ expired_ids' = ExpiredIds(Company, items)
    /\ pc' = "expired_mapped"
    /\ SigIdle
    /\ UNCHANGED <<companies, use_expired, items, prev_items,
                   ci, clock, job_posts, existing_active, mapped_rows, new_rows,
                   removed_ids, chunk_i, chunk, total_new_signals,
                   total_removed_signals, total_jobs_upserted, reported,
                   failed_in, ops, pre_posts>>

InitMap ==
    /\ companies \in {<<c>> : c \in Companies}
    /\ use_expired = TRUE
    /\ job_posts = PostsOf({}, {})
    /\ pre_posts = job_posts
    /\ pc = "map"
    /\ unknown_cols = {"signal_type"}
    /\ items \in {<<it>> : it \in MapItems}
    /\ InitLocals

NextMap ==
    \/ MapStep
    \/ ExpiredIdsStep

SpecMap == InitMap /\ [][NextMap]_vars

----------------------------------------------------------------------------
(* What a state shows of the current pass *)

\* the pass has run to its end (main is at time.sleep)
PassComplete == pc = "sleep"

\* removed_ids has been computed in this pass and main has not failed since
DiffDone ==
    \/ pc \in {"mark", "rm_signals", "next_chunk", "expired", "exp_mark",
               "exp_signals", "exp_next", "sleep"}
    \/ pc = "ins" /\ ret \in {"next_chunk", "exp_next"}

\* the positions <<e, n>> of the job ids handed to supabase_insert_signals
HandedAt(kind) ==
    {p \in UNION {{<<e, n>> : n \in 1..Len(ops[e].ids)} : e \in 1..Len(ops)} :
        ops[p[1]].op = "insert_signals" /\ ops[p[1]].kind = kind}

\* how many signals of the kind were built for the id and handed over
CountHanded(kind, id) ==
    Cardinality({p \in HandedAt(kind) : ops[p[1]].ids[p[2]] = id})

HandedIds(kind) == {ops[p[1]].ids[p[2]] : p \in HandedAt(kind)}

OpsOf(name, kind) ==
    {e \in 1..Len(ops) : ops[e].op = name /\ ops[e].kind = kind}

PassIds ==
    existing_active \cup CurrentIds(mapped_rows)
        \cup HandedIds("NEW_JOB") \cup HandedIds("JOB_REMOVED")

----------------------------------------------------------------------------
(* C1: in a pass that completes, exactly one NEW_JOB signal is built and   *)
(* handed to supabase_insert_signals for each id of the mapped rows that   *)
(* is not in existing_active, and none for any other id, also when two     *)
(* fetched records map to the same id.                                     *)
C1_OneNewJobSignalPerNewId ==
    PassComplete =>
        \A id \in PassIds :
            CountHanded("NEW_JOB", id) =
                IF id \in CurrentIds(mapped_rows) \ existing_active THEN 1 ELSE 0

(* C2: in a pass that completes, exactly one JOB_REMOVED signal is built   *)
(* and handed over for each id of existing_active that is not an id of the *)
(* mapped rows, and none for any other id, whatever USE_EXPIRED_ACTOR is   *)
(* and whatever the expired-jobs fetch returns.                            *)
C2_OneRemovedSignalPerRemovedId ==
    PassComplete =>
        \A id \in PassIds :
            CountHanded("JOB_REMOVED", id) =
                IF id \in existing_active \ CurrentIds(mapped_rows) THEN 1 ELSE 0

(* C3: when an accepted upsert writes a row whose id is already stored,    *)
(* the stored first_seen_at is unchanged and the stored last_seen_at       *)
(* becomes the row's value.                                                *)
C3_UpsertKeepsFirstSeen ==
    [][(pc = "upsert" /\ pc' = "new_signals")
        => \A n \in 1..Len(mapped_rows) :
             mapped_rows[n].id \in DOMAIN job_posts
               => /\ job_posts'[mapped_rows[n].id].first_seen_at
                       = job_posts[mapped_rows[n].id].first_seen_at
                  /\ job_posts'[mapped_rows[n].id].last_seen_at
                       = mapped_rows[n].last_seen_at]_vars

(* C4: marking n removed ids inactive issues ceil(n / BATCH) mark-inactive *)
(* requests, the k-th for the k-th slice of BATCH ids, and a rejected      *)
(* request does not keep the later ones from being issued.                 *)
C4_EveryChunkIssued ==
    (/\ removed_ids # <<>>
     /\ \/ pc \in {"expired", "exp_mark", "exp_signals", "exp_next", "sleep", "failed"}
        \/ pc = "ins" /\ ret = "exp_next")
    => /\ Cardinality(OpsOf("mark_inactive", "diff"))
            = (Len(removed_ids) + BATCH - 1) \div BATCH
       /\ \A k \in 1..((Len(removed_ids) + BATCH - 1) \div BATCH) :
            \E e \in OpsOf("mark_inactive", "diff") :
                ops[e].ids = Slice(removed_ids, (k - 1) * BATCH)

(* C5: whatever the signals endpoint answers, supabase_insert_signals      *)
(* returns to its caller without raising: main is never left through it,   *)
(* the retry loop always has a next request or has returned, and a call    *)
(* that has ended has put main at the step that follows the call.          *)
C5_InsertSignalsNeverRaises ==
    /\ failed_in # "supabase_insert_signals"
    /\ sig_result # "raised"
    /\ pc = "ins" => attempt < MaxAttempts /\ sig_result = "none"
    /\ sig_result \in {"empty", "accepted", "abandoned", "exhausted"}
         => pc = ret /\ pc \in {"removed", "next_chunk", "exp_next"}
                     /\ failed_in = "none"

\* a second company's pass is under way and a rejected signal write of it
\* has been abandoned with a warning
C5_Witness ==
    /\ ci = 2
    /\ sig_result = "abandoned"
    /\ sig_warned
    /\ pc = "next_chunk"

(* C6: if the signals table lacks exactly the columns unknown_cols, names  *)
(* one still-present of them per rejection and accepts a batch with none   *)
(* of them, and there are fewer of them than the retry bound, then the     *)
(* call ends with an accepted write whose rows are the caller's rows       *)
(* without the unknown columns, and it does not raise.                     *)
C6_UnknownColumnsPruned ==
    (/\ pc = "returned"
     /\ rows_arg # <<>>
     /\ conforming
     /\ Cardinality(unknown_cols) < MaxAttempts)
    => /\ sig_result = "accepted"
       /\ failed_in = "none"
       /\ Len(written) = Len(rows_arg)
       /\ \A n \in 1..Len(rows_arg) :
            written[n] = [k \in (DOMAIN rows_arg[n]) \ unknown_cols |-> rows_arg[n][k]]

\* two unknown columns were named in turn and the third request was accepted
C6_Witness ==
    /\ pc = "returned"
    /\ conforming
    /\ Cardinality(unknown_cols) = 2
    /\ Len(rows_arg) = 2
    /\ sig_result = "accepted"
    /\ \A n \in 1..2 : Cardinality(DOMAIN written[n]) = Cardinality(DOMAIN rows_arg[n]) - 2

(* C7: NEW (ids of new_rows), STILL_ACTIVE (ids of mapped rows that are in *)
(* existing_active) and REMOVED (removed_ids) are pairwise disjoint and    *)
(* their union is existing_active together with the ids of mapped_rows.    *)
NewSet == {new_rows[n].id : n \in 1..Len(new_rows)}
StillActiveSet == {id \in CurrentIds(mapped_rows) : id \in existing_active}
RemovedSet == SeqToSet(removed_ids)

C7_DiffPartitions ==
    DiffDone =>
        /\ NewSet \cap StillActiveSet = {}
        /\ NewSet \cap RemovedSet = {}
        /\ StillActiveSet \cap RemovedSet = {}
        /\ NewSet \cup StillActiveSet \cup RemovedSet
              = existing_active \cup CurrentIds(mapped_rows)

C7_Witness ==
    /\ DiffDone
    /\ NewSet # {}
    /\ StillActiveSet # {}
    /\ RemovedSet # {}

(* C8: after a pass that completes, every record of the company that was   *)
(* stored before the pass is still stored, every id that was active before *)
(* the pass and is not fetched is inactive, and every fetched id is active.*)
C8_PassLeavesFetchedActive ==
    PassComplete =>
        /\ \A id \in DOMAIN pre_posts :
              pre_posts[id].company = Company => id \in DOMAIN job_posts
        /\ \A id \in existing_active \ CurrentIds(mapped_rows) :
              ~job_posts[id].is_active
        /\ \A id \in CurrentIds(mapped_rows) :
              id \in DOMAIN job_posts /\ job_posts[id].is_active

C10_UpsertRejectionIsFatal ==
    /\ [](\A e \in 1..Len(ops) :
            (ops[e].op = "upsert" /\ ~ops[e].ok)
              => /\ e = Len(ops)
                 /\ pc = "failed"
                 /\ failed_in = "supabase_upsert_job_posts"
                 /\ ~reported
                 /\ job_posts = pre_posts
                 /\ OpsOf("insert_signals", "NEW_JOB") = {}
                 /\ OpsOf("insert_signals", "JOB_REMOVED") = {})
    /\ [][pc # "failed"]_vars

\* the upsert of the first of two companies was rejected
C10_Witness ==
    /\ pc = "failed"
    /\ failed_in = "supabase_upsert_job_posts"
    /\ ci = 1
    /\ Len(companies) = 2
    /\ ops[Len(ops)].op = "upsert"

(* C11: a failed call of the fetch source, the career-site fetch or the    *)
(* expired-jobs fetch, ends the run: it is the last operation of the pass, *)
(* main has failed, the table is as the failed call found it, the summary  *)
(* is not printed, and main takes no step after it has failed, so no later *)
(* company is processed.                                                   *)
C11_FetchFailureIsFatal ==
    /\ [](\A e \in 1..Len(ops) :
            (ops[e].op \in {"fetch", "fetch_expired"} /\ ~ops[e].ok)
              => /\ e = Len(ops)
                 /\ pc = "failed"
                 /\ failed_in \in {"fetch_new_jobs_for_company",
                                   "fetch_expired_jobs_for_company"}
                 /\ ~reported)
    /\ [][pc # "failed"]_vars

FirstIdLikeColumn(rows) ==
    IF AnyRowHas(rows, "id") THEN "id"
    ELSE IF AnyRowHas(rows, "account_id") THEN "account_id"
    ELSE "signal_id"

C13_DroppedBatchIsWarned ==
    (/\ rows_arg # <<>>
     /\ pc = ret
     /\ sig_result \in {"abandoned", "exhausted"})
    => sig_warned

\* the current pass is for the same company as the pass before it, which
\* ran to its end, and its fetch has returned the records that pass fetched
RepeatedPass ==
    /\ ci >= 2
    /\ ci <= Len(companies)
    /\ companies[ci - 1] = companies[ci]
    /\ \E e \in 1..Len(ops) : ops[e].op = "fetch" /\ ops[e].ok
    /\ items = prev_items

(* C14: when the company list names a company twice in a row, the first of *)
(* the two passes completes and the fetch returns the same records in      *)
(* both, the second pass builds no NEW_JOB and no JOB_REMOVED signal,      *)
(* issues no mark-inactive request, and leaves the active ids of the       *)
(* company in job_posts as the first pass left them.                       *)
C14_RepeatedPassIsIdle ==
    RepeatedPass =>
        /\ HandedAt("NEW_JOB") = {}
        /\ HandedAt("JOB_REMOVED") = {}
        /\ OpsOf("mark_inactive", "diff") = {}
        /\ OpsOf("mark_inactive", "actor") = {}
        /\ ActiveJobUids(job_posts, Company) = ActiveJobUids(pre_posts, Company)
        /\ DiffDone => new_rows = <<>> /\ removed_ids = <<>>

\* the text after "::" in the seed as the claim derives it: the id whenever
\* it is not None, else the url, else the empty string
ClaimedSeedTail(item) ==
    IF Get(item, "id") # NoneV THEN PyStr(Get(item, "id"))
    ELSE IF Get(item, "url") # NoneV THEN item.url
    ELSE ""

(* C15: for every company and every record, the id map_job_item_to_row     *)
(* gives the row is the uuid5 of company + "::" + id whenever the record's *)
(* id is not None (the empty string and 0 included), and of company + "::" *)
(* + url only when the id is None or absent, the url being "" when it is   *)
(* missing.                                                                *)
C15_SeedPrefersNonNullId ==
    pc \in {"mapped", "expired_mapped"} =>
        /\ Len(mapped_rows) = 1
        /\ mapped_rows[1].id = UUID5(<<Company, ClaimedSeedTail(items[1])>>)
        /\ mapped_rows[1].job_uid = mapped_rows[1].id

\* the operations of lines 315-359 in the log of the pass: those before the
\* expired-jobs fetch
DiffOps ==
    LET first == {e \in 1..Len(ops) : /\ ops[e].op = "fetch_expired"
                                       /\ \A d \in 1..(e - 1) : ops[d].op # "fetch_expired"}
    IN IF first = {} THEN ops ELSE SubSeq(ops, 1, (CHOOSE e \in first : TRUE) - 1)

IsNewJobCall(o) == o.op = "insert_signals" /\ o.kind \in {"", "NEW_JOB"}
IsNewJobWrite(o) == o.op = "signals_post" /\ o.kind = "NEW_JOB"
IsDiffMark(o) == o.op = "mark_inactive" /\ o.kind = "diff"
IsRemovedCall(o) == o.op = "insert_signals" /\ o.kind = "JOB_REMOVED"
IsRemovedWrite(o) == o.op = "signals_post" /\ o.kind = "JOB_REMOVED"

\* operation b may come directly after operation a in a pass
MayFollow(a, b) ==
    /\ a.ok
    /\ CASE a.op = "get_active" -> b.op = "fetch"
         [] a.op = "fetch" -> b.op = "upsert" \/ (IsNewJobCall(b) /\ b.ids = <<>>)
         [] a.op = "upsert" -> IsNewJobCall(b)
         [] IsNewJobCall(a) -> (IsNewJobWrite(b) /\ b.ids = a.ids /\ a.ids # <<>>)
                                \/ IsDiffMark(b)
         [] IsNewJobWrite(a) -> IsDiffMark(b)
         [] IsDiffMark(a) -> IsRemovedCall(b) /\ b.ids = a.ids
         [] IsRemovedCall(a) -> (IsRemovedWrite(b) /\ b.ids = a.ids) \/ IsDiffMark(b)
         [] IsRemovedWrite(a) -> IsDiffMark(b)
         [] OTHER -> FALSE

(* C16: in every pass the operations come in one order: the read of the    *)
(* active ids, the fetch, the upsert, the NEW_JOB signal write, then for   *)
(* each chunk the mark-inactive request followed by the JOB_REMOVED signal *)
(* write of the same ids; and NEW and REMOVED are classified against the   *)
(* active ids the table held before the upsert of the pass.                *)
C16_PassOrderAndPreUpsertSet ==
    /\ DiffOps # <<>> => DiffOps[1].op = "get_active"
    /\ \A e \in 1..(Len(DiffOps) - 1) : MayFollow(DiffOps[e], DiffOps[e + 1])
    /\ (\E e \in 1..Len(ops) : ops[e].op = "get_active" /\ ops[e].ok)
         => existing_active = ActiveJobUids(pre_posts, Company)
    /\ (\E e \in 1..Len(ops) : ops[e].op = "insert_signals")
         => /\ NewSet = CurrentIds(mapped_rows) \ ActiveJobUids(pre_posts, Company)
            /\ SeqToSet(DiffOps[CHOOSE e \in 1..Len(DiffOps) : IsNewJobCall(DiffOps[e])].ids)
                 = NewSet
    /\ DiffDone
         => RemovedSet = ActiveJobUids(pre_posts, Company) \ CurrentIds(mapped_rows)

\* a pass with an upsert, a NEW_JOB write and three chunks has run its diff
C16_Witness ==
    /\ pc = "expired"
    /\ \E e \in 1..Len(ops) : ops[e].op = "upsert"
    /\ \E e \in 1..Len(ops) : IsNewJobWrite(ops[e])
    /\ Cardinality({e \in 1..Len(ops) : IsDiffMark(ops[e])}) = 3
    /\ Cardinality({e \in 1..Len(ops) : IsRemovedWrite(ops[e])}) = 3

(* C17: whatever the signals endpoint answers, a rejection of every        *)
(* request included, a call of supabase_insert_signals issues at most 8    *)
(* requests for its batch and then returns: a request is only issued when  *)
(* fewer than 8 were, every request either ends the call or is counted,    *)
(* and a call that has begun returns to its caller.                        *)
C17_AtMostEightRequests ==
    /\ [](pc = "ins" => attempt < 8)
    /\ [][pc = "ins" => \/ pc' = "ins" /\ attempt' = attempt + 1
                        \/ pc' = ret /\ ret # "ins"]_vars
    /\ (pc = "ins") ~> (pc = ret)

\* the eighth request of a call was rejected and the call has returned
C17_Witness ==
    /\ pc = "returned"
    /\ rows_arg # <<>>
    /\ sig_result = "exhausted"
    /\ written = <<>>

(* C18: after a rejection that names the missing column c, the batch of    *)
(* the next request is the batch of the rejected one with c removed from   *)
(* every row: as many rows in the same order, every other field with its   *)
(* value, and the caller's list as it was; when no row has the field c the *)
(* next batch equals the rejected one.                                     *)
C18_PruneRemovesOnlyNamedColumn ==
    [][\A resp \in SigResponseUniverse :
          (/\ SigAttempt(resp)
           /\ ~resp.ok
           /\ ExtractMissingColumnName(resp) # NoneV
           /\ pc' = "ins")
          => LET c == ExtractMissingColumnName(resp)
             IN /\ rows_arg' = rows_arg
                /\ Len(working') = Len(working)
                /\ \A n \in 1..Len(working) :
                     /\ DOMAIN working'[n] = (DOMAIN working[n]) \ {c}
                     /\ \A k \in DOMAIN working'[n] : working'[n][k] = working[n][k]
                /\ (\A n \in 1..Len(working) : c \notin DOMAIN working[n])
                     => working' = working]_vars

\* two rejections named a column, one of them a field of the rows, and the
\* third request is about to be sent
C18_Witness ==
    /\ pc = "ins"
    /\ attempt = 2
    /\ rows_arg = <<SampleNew, SampleRemoved>>
    /\ \A n \in 1..2 :
         Cardinality(DOMAIN working[n]) = Cardinality(DOMAIN rows_arg[n]) - 1

\* the chunks handed to supabase_mark_inactive at line 353, in issue order
DiffChunks ==
    LET marks == SelectSeq(ops, IsDiffMark)
    IN [k \in 1..Len(marks) |-> marks[k].ids]

RECURSIVE Concat(_)
Concat(seqs) == IF seqs = <<>> THEN <<>> ELSE Head(seqs) \o Concat(Tail(seqs))

\* the diff loop of lines 351-356 has run to its end
DiffLoopDone ==
    \/ pc \in {"expired", "exp_mark", "exp_signals", "exp_next", "sleep"}
    \/ pc = "ins" /\ ret = "exp_next"

(* C19: the chunks main hands to supabase_mark_inactive in the diff path   *)
(* are consecutive slices of the removed ids in ascending order: each has  *)
(* between 1 and 200 ids and each but the last 200, no id is in two of     *)
(* them, their concatenation in issue order is ascending and holds the     *)
(* smallest ids of existing_active minus the fetched ids, and all of them  *)
(* when the loop has run to its end.                                       *)
C19_ChunksSliceSortedRemoved ==
    LET chunks == DiffChunks
        all == Concat(chunks)
        issued == SeqToSet(all)
        removed == existing_active \ CurrentIds(mapped_rows)
    IN /\ \A k \in 1..Len(chunks) :
             /\ Len(chunks[k]) >= 1
             /\ Len(chunks[k]) <= 200
             /\ k < Len(chunks) => Len(chunks[k]) = 200
       /\ Cardinality(issued) = Len(all)
       /\ \A n \in 1..(Len(all) - 1) : all[n] < all[n + 1]
       /\ issued \subseteq removed
       /\ all # <<>> => \A y \in removed \ issued : all[Len(all)] < y
       /\ DiffLoopDone => issued = removed

\* more than two full chunks' worth of ids were removed in three chunks
C19_Witness ==
    /\ DiffLoopDone
    /\ Len(DiffChunks) = 3
    /\ Len(removed_ids) > 2 * BATCH
    /\ Len(DiffChunks[3]) < BATCH

(* C20: a signal write follows the storage write it reports: NEW_JOB       *)
(* signals are only handed over and sent after an accepted upsert of the   *)
(* pass that holds their ids, JOB_REMOVED signals only directly after an   *)
(* accepted mark-inactive request for the same ids, and a rejected upsert  *)
(* or mark-inactive request is the last operation of its pass: no signal   *)
(* for its rows or chunk is written.                                       *)
C20_SignalsFollowStorageWrites ==
    \A e \in 1..Len(ops) :
        /\ (ops[e].op \in {"insert_signals", "signals_post"} /\ ops[e].kind = "NEW_JOB")
             => \E u \in 1..(e - 1) :
                    /\ ops[u].op = "upsert"
                    /\ ops[u].ok
                    /\ SeqToSet(ops[e].ids) \subseteq SeqToSet(ops[u].ids)
        /\ (ops[e].op = "insert_signals" /\ ops[e].kind = "JOB_REMOVED")
             => /\ e > 1
                /\ ops[e - 1].op = "mark_inactive"
                /\ ops[e - 1].ok
                /\ ops[e - 1].ids = ops[e].ids
        /\ (ops[e].op = "signals_post" /\ ops[e].kind = "JOB_REMOVED")
             => /\ e > 2
                /\ ops[e - 1].op = "insert_signals"
                /\ ops[e - 1].ids = ops[e].ids
                /\ ops[e - 2].op = "mark_inactive"
                /\ ops[e - 2].ok
                /\ ops[e - 2].ids = ops[e].ids
        /\ (ops[e].op \in {"upsert", "mark_inactive"} /\ ~ops[e].ok)
             => /\ e = Len(ops)
                /\ \/ pc = "failed"
                   \/ ops[e].kind = "actor" /\ pc = "sleep"

\* a pass has sent NEW_JOB signals after its upsert and JOB_REMOVED signals
\* after its mark-inactive request
C20_Witness ==
    /\ pc = "next_chunk"
    /\ \E e \in 1..Len(ops) : IsNewJobWrite(ops[e])
    /\ \E e \in 1..Len(ops) : IsRemovedWrite(ops[e])
    /\ sig_result = "accepted"

====
